---- MODULE Spec2Model ----
(***************************************************************************)
(* A model of putioarr's download system: the Target Planner               *)
(* (transfer.rs, recurse_download_targets), the Transfer Producer           *)
(* (transfer.rs, produce_transfers), the orchestration workers and the two  *)
(* watchers (orchestration.rs).  The download worker (download.rs) and the  *)
(* Import Oracle (Transfer::is_imported) are not part of the sources at     *)
(* hand and are modelled from the specification's sections 4.4 and 4.5.     *)
(*                                                                         *)
(* Fields of the source that only feed log lines (Transfer.name,            *)
(* Transfer.hash, DownloadTarget.transfer_hash) are left out.               *)
(***************************************************************************)
EXTENDS Integers, Sequences, FiniteSets, TLC

VARIABLES
    files,            \* the remote file tree: node id -> [name, file_type, parent]
    skip_directories, \* Config.skip_directories (a Vec<String>)
    plan,             \* PlannerSpec: the last call of get_download_targets and its result
    producer,         \* produce_transfers: its position and its locals (see ProducerStart)
    queue,            \* the pipeline event channel (sender, receiver) of start()
    dqueue,           \* the dispatch channel (download_sender, download_receiver) of start()
    workers,          \* the orchestration workers: position and locals of Worker::work
    done,             \* done_channels of each orchestration worker's current handling
    dworkers,         \* the download workers
    watchers,         \* the spawned watch_for_import and watch_seeding tasks, in spawn order
    local,            \* the local file system: path -> "missing" | "dir" | "file"
    sent,             \* history: how many events of each kind were sent, per transfer id
    waits,            \* history: how many waiting polls the watchers' logs still record
    failed            \* history: how many handlings of each transfer id collected a Failed outcome

plannerVars == <<files, skip_directories, plan>>

pipelineVars == <<producer, queue, dqueue, workers, done, dworkers, watchers, local, sent, waits,
                  failed>>

vars == <<files, skip_directories, plan, producer, queue, dqueue, workers, done,
          dworkers, watchers, local, sent, waits, failed>>

\* Option<T>: None is the empty sequence, Some(x) the sequence of x alone
None == <<>>
Some(x) == <<x>>
IsSome(o) == o # <<>>
Unwrap(o) == o[1]

\* PlannerSpec before its planning call
NotPlanned == [called |-> FALSE, listFail |-> {}, urlFail |-> {}, result |-> [ok |-> FALSE, targets |-> <<>>]]

(***************************************************************************)
(* Names are sequences of characters, so that to_lowercase is a conversion  *)
(* of characters and not the identity.                                     *)
(***************************************************************************)
Lower(c) ==
    CASE c = "S" -> "s"
      [] c = "A" -> "a"
      [] OTHER -> c

to_lowercase(name) == [i \in DOMAIN name |-> Lower(name[i])]

\* Vec::contains
Contains(vec, x) == \E i \in DOMAIN vec : vec[i] = x

\* the number of nodes of the largest remote tree PlannerSpec draws
MaxNodes == 4

\* (file_type, name) of a remote node, as PlannerSpec draws them
NodeKinds ==
    { [file_type |-> "FOLDER", name |-> <<"e", "p">>],
      [file_type |-> "FOLDER", name |-> <<"s", "a">>],
      [file_type |-> "FOLDER", name |-> <<"S", "a">>],
      [file_type |-> "VIDEO",  name |-> <<"e", "p">>],
      [file_type |-> "VIDEO",  name |-> <<"s", "a">>],
      [file_type |-> "TEXT",   name |-> <<"e", "p">>] }

\* the skip lists PlannerSpec draws; the second is the shape of the default
\* of main.rs (lower-case entries)
SkipLists ==
    { <<>>,
      << <<"s", "a">> >>,
      << <<"S", "a">> >> }

\* A node of kind nk under parent p
Node(nk, p) == [file_type |-> nk.file_type, name |-> nk.name, parent |-> p]

\* The remote trees of k nodes: node 1 is the root (parent 0), every other
\* node hangs under a FOLDER with a smaller id.
RECURSIVE Trees(_)
Trees(k) ==
    IF k = 1 THEN { << Node(nk, 0) >> : nk \in NodeKinds }
    ELSE UNION { { Append(t, Node(nk, p)) :
                     nk \in NodeKinds,
                     p \in {q \in DOMAIN t : t[q].file_type = "FOLDER"} } :
                 t \in Trees(k - 1) }

\* putio::list_files(id).files: the children of a node, in the listing's order
Children(fs, id) ==
    LET kids == {n \in DOMAIN fs : fs[n].parent = id}
        RECURSIVE Sorted(_)
        Sorted(S) ==
            IF S = {} THEN <<>>
            ELSE LET m == CHOOSE x \in S : \A y \in S : x <= y
                 IN  <<m>> \o Sorted(S \ {m})
    IN  Sorted(kids)

\* Path::new(base_path).join(name), as a sequence of path components
PathJoin(base_path, name) == <<base_path, name>>

Ok(targets) == [ok |-> TRUE, targets |-> targets]
Err == [ok |-> FALSE, targets |-> <<>>]

(***************************************************************************)
(* recurse_download_targets.  listFail and urlFail are the node ids for     *)
(* which putio::list_files and putio::url answer with an error during this  *)
(* call; every `?` of the source returns Err for the whole call.            *)
(* base_path is "." whatever override_base_path is (transfer.rs:72).        *)
(***************************************************************************)
RECURSIVE recurse_download_targets(_, _, _, _, _, _)
RECURSIVE RecurseFiles(_, _, _, _, _, _, _)
RECURSIVE RecurseFilesPartial(_, _, _, _, _, _, _)
RECURSIVE RecurseFilesInFront(_, _, _, _, _, _, _)

DescendInto(skip, name) == ~Contains(skip, to_lowercase(name))

\* a mutant of ChildTopLevel: the recursive call hands its own flag down
ChildTopLevelPassedDown(top_level) == top_level

\* the top_level argument of the recursive call (transfer.rs:104)
ChildTopLevel(top_level) == FALSE

\* a mutant of MatchArm: every node that is no folder is fetched
MatchArmAnyLeaf(file_type) ==
    IF file_type = "FOLDER" THEN "FOLDER" ELSE "VIDEO"

\* the arm of `match response.parent.file_type.as_str()` that is taken
MatchArm(file_type) ==
    CASE file_type = "FOLDER" -> "FOLDER"
      [] file_type = "VIDEO" -> "VIDEO"
      [] OTHER -> "_"

\* a mutant of RecurseFiles: a failing child ends the loop and the targets
\* gathered so far are returned
RecurseFilesPartial(fs, skip, kids, acc, listFail, urlFail, top_level) ==
    IF kids = <<>> THEN Ok(acc)
    ELSE LET r == recurse_download_targets(fs, skip, Head(kids), ChildTopLevel(top_level),
                                           listFail, urlFail)
         IN  IF ~r.ok THEN Ok(acc)
             ELSE RecurseFilesPartial(fs, skip, Tail(kids), acc \o r.targets, listFail,
                                      urlFail, top_level)

\* a mutant of RecurseFiles: the targets of a child go in front of the
\* targets gathered so far
RecurseFilesInFront(fs, skip, kids, acc, listFail, urlFail, top_level) ==
    IF kids = <<>> THEN Ok(acc)
    ELSE LET r == recurse_download_targets(fs, skip, Head(kids), ChildTopLevel(top_level),
                                           listFail, urlFail)
         IN  IF ~r.ok THEN Err
             ELSE RecurseFilesInFront(fs, skip, Tail(kids), r.targets \o acc, listFail,
                                      urlFail, top_level)

\* the loop over response.files (transfer.rs:97-108): the first failing child
\* fails the call
RecurseFiles(fs, skip, kids, acc, listFail, urlFail, top_level) ==
    IF kids = <<>> THEN Ok(acc)
    ELSE LET r == recurse_download_targets(fs, skip, Head(kids), ChildTopLevel(top_level),
                                           listFail, urlFail)
         IN  IF ~r.ok THEN Err
             ELSE RecurseFiles(fs, skip, Tail(kids), acc \o r.targets, listFail, urlFail,
                               top_level)

recurse_download_targets(fs, skip, file_id, top_level, listFail, urlFail) ==
    IF file_id \in listFail THEN Err
    ELSE
    LET parent == fs[file_id]
        to == PathJoin(".", parent.name)
        arm == MatchArm(parent.file_type)
    IN  CASE arm = "FOLDER" ->
                IF DescendInto(skip, parent.name)
                THEN RecurseFiles(fs, skip, Children(fs, file_id),
                                  << [from |-> None, target_type |-> "Directory",
                                      to |-> to, top_level |-> top_level] >>,
                                  listFail, urlFail, top_level)
                ELSE Ok(<<>>)
          [] arm = "VIDEO" ->
                IF file_id \in urlFail THEN Err
                ELSE Ok(<< [from |-> Some(file_id), target_type |-> "File",
                            to |-> to, top_level |-> top_level] >>)
          [] OTHER -> Ok(<<>>)

\* Transfer::get_download_targets
get_download_targets(fs, skip, file_id, listFail, urlFail) ==
    recurse_download_targets(fs, skip, file_id, TRUE, listFail, urlFail)

\* the failing remote calls of one planning call, <<listFail, urlFail>>: at
\* most one call fails
Failures(fs) ==
    { <<{}, {}>> } \cup { <<{n}, {}>> : n \in DOMAIN fs } \cup { <<{}, {n}>> : n \in DOMAIN fs }

\* the root of the tree is the transfer's file_id
RootId == 1

(***************************************************************************)
(* The pipeline's configuration and environment.                            *)
(***************************************************************************)
\* Config.orchestration_workers
OrchestrationWorkers == 2

\* Config.download_workers
DownloadWorkers == 2

\* the remote transfer ids that the remote service lists
NumTransfers == 2

\* the QueuedForDownload events the producer sends in one behaviour, at most
MaxEnqueue == 2

\* where the history counter producer.listed stops counting
ListedCap == 2

TransferIds == 1..NumTransfers
OWorkers == 1..OrchestrationWorkers
DWorkers == 1..DownloadWorkers

\* The remote files of the pipeline's behaviours: a folder with one VIDEO
\* (node 1), a folder the skip list drops (node 3), a single VIDEO (node 4).
PipelineFiles ==
    << Node([file_type |-> "FOLDER", name |-> <<"e", "p">>], 0),
       Node([file_type |-> "VIDEO",  name |-> <<"s", "a">>], 1),
       Node([file_type |-> "FOLDER", name |-> <<"S", "a">>], 0),
       Node([file_type |-> "VIDEO",  name |-> <<"m">>], 0) >>

\* the skip list of the pipeline's behaviours
PipelineSkip == << <<"s", "a">> >>

\* the file_id a listed transfer can carry once it is downloadable: the first
\* transfer is the folder, every other one the skipped folder or the single VIDEO
FileIdsOf(id) == IF id = 1 THEN {1} ELSE {3, 4}

\* the local paths the pipeline's targets name
Paths == { PathJoin(".", PipelineFiles[n].name) : n \in DOMAIN PipelineFiles }

\* AppData.root_folder_id, and a folder that is not it
RootFolderId == 7
OtherFolderId == 8

\* PutIOTransfer, the fields the download system reads
PutIOTransfer(id, file_id, save_parent_id) ==
    [id |-> id, file_id |-> file_id, save_parent_id |-> save_parent_id]

\* PutIOTransfer::is_downloadable
is_downloadable(t) == IsSome(t.file_id)

\* Transfer::from
TransferFrom(t) == [transfer_id |-> t.id, file_id |-> t.file_id, targets |-> None]

\* what the remote service can say of one transfer id: absent (the empty
\* sequence) or listed, with or without a file_id
ListingsOf(id, parents) ==
    { <<>> } \cup
    { << PutIOTransfer(id, f, Some(sp)) >> :
        f \in {None} \cup {Some(n) : n \in FileIdsOf(id)}, sp \in parents }

\* the remote lists over the ids 1..n, in id order
RECURSIVE ListsUpTo(_, _)
ListsUpTo(n, parents) ==
    IF n = 0 THEN { <<>> }
    ELSE { l \o e : l \in ListsUpTo(n - 1, parents), e \in ListingsOf(n, parents) }

\* the answers of putio::list_transfers at startup and in the polling loop
\* (the loop never reads save_parent_id)
StartupLists == ListsUpTo(NumTransfers, {RootFolderId, OtherFolderId})
PollLists == ListsUpTo(NumTransfers, {RootFolderId})

Event(kind, t) == [kind |-> kind, transfer |-> t]

NoTransfer == [transfer_id |-> 0, file_id |-> None, targets |-> None]

WorkerIdle == [pc |-> "recv", transfer |-> NoTransfer, targets |-> <<>>, all_downloaded |-> <<>>]

NoTarget == [from |-> None, target_type |-> "Directory", to |-> <<>>, top_level |-> FALSE]

DWorkerIdle == [pc |-> "recv", download_target |-> NoTarget, tx |-> <<0, 0>>]

EventKinds == {"QueuedForDownload", "Downloaded", "Imported"}

\* produce_transfers when it is spawned.  pc is its position; seen is the
\* Vec `seen`; list is the list_transfers response while it is in scope;
\* planned (history) lists the transfer ids the startup pass has planned;
\* listed (history) counts, up to ListedCap, the successful fetches that listed
\* an id since QueuedForDownload was last sent for it, that send's own fetch
\* included (0: never sent, or absent from a fetch since); retrying (history)
\* tells that the last fetch failed and the loop has not slept since.
ProducerStart ==
    [pc |-> "startup", seen |-> <<>>, list |-> <<>>, planned |-> <<>>,
     listed |-> [id \in TransferIds |-> 0], retrying |-> FALSE]

\* the state after download_system::start: the producer and the workers are
\* spawned, both channels are empty
PipelineStart ==
    /\ producer = ProducerStart
    /\ queue = <<>>
    /\ dqueue = <<>>
    /\ workers = [w \in OWorkers |-> WorkerIdle]
    /\ done = [w \in OWorkers |-> <<>>]
    /\ dworkers = [d \in DWorkers |-> DWorkerIdle]
    /\ watchers = <<>>
    /\ local = [p \in Paths |-> "missing"]
    /\ sent = [k \in EventKinds |-> [id \in TransferIds |-> 0]]
    /\ waits = 0
    /\ failed = [id \in TransferIds |-> 0]

Init ==
    /\ files = PipelineFiles
    /\ skip_directories = PipelineSkip
    /\ plan = NotPlanned
    /\ PipelineStart

(***************************************************************************)
(* produce_transfers.                                                       *)
(***************************************************************************)
\* The event channel is closed when every Receiver is dropped: start() drops
\* its own when it returns, each orchestration worker drops its clone when
\* work() returns.  Sender::send then answers Err.
EventChannelClosed == \A w \in OWorkers : workers[w].pc = "ended"

\* Startup reconciliation (transfer.rs:176-202): plan every downloadable
\* transfer under the root folder; stops at the first planning error.
\* Returns the ids planned and whether all of them were planned.
RECURSIVE Reconcile(_, _, _)
Reconcile(list, failures, planned) ==
    IF list = <<>> THEN [ok |-> TRUE, planned |-> planned]
    ELSE LET t == Head(list)
         IN  IF t.save_parent_id # Some(RootFolderId) THEN Reconcile(Tail(list), failures, planned)
             ELSE IF ~is_downloadable(t) THEN Reconcile(Tail(list), failures, planned)
             ELSE LET r == get_download_targets(files, skip_directories, Unwrap(t.file_id),
                                                failures[1], failures[2])
                  IN  IF r.ok THEN Reconcile(Tail(list), failures, Append(planned, t.id))
                      ELSE [ok |-> FALSE, planned |-> Append(planned, t.id)]

\* list_transfers fails at startup: produce_transfers returns the error
ProducerStartupListFails ==
    /\ producer.pc = "startup"
    /\ producer' = [producer EXCEPT !.pc = "startup_failed"]
    /\ UNCHANGED <<queue, dqueue, workers, done, dworkers, watchers, local, sent>>
    /\ UNCHANGED <<plannerVars, waits, failed>>

\* a planning call fails at startup: produce_transfers returns the error
ProducerStartupPlanFails ==
    /\ producer.pc = "startup"
    /\ \E list \in StartupLists, f \in Failures(files) :
          LET r == Reconcile(list, f, <<>>)
          IN  /\ ~r.ok
              /\ producer' = [producer EXCEPT !.pc = "startup_failed", !.list = list,
                                              !.planned = r.planned]
    /\ UNCHANGED <<queue, dqueue, workers, done, dworkers, watchers, local, sent>>
    /\ UNCHANGED <<plannerVars, waits, failed>>

\* a mutant of ProducerStartup: the pass marks what it planned as seen
ProducerStartupMarksSeen ==
    /\ producer.pc = "startup"
    /\ \E list \in StartupLists, f \in Failures(files) :
          LET r == Reconcile(list, f, <<>>)
          IN  /\ r.ok
              /\ producer' = [producer EXCEPT !.pc = "reconciled", !.list = list,
                                              !.planned = r.planned, !.seen = r.planned]
    /\ UNCHANGED <<queue, dqueue, workers, done, dworkers, watchers, local, sent>>
    /\ UNCHANGED <<plannerVars, waits, failed>>

ProducerStartup ==
    /\ producer.pc = "startup"
    /\ \E list \in StartupLists, f \in Failures(files) :
          LET r == Reconcile(list, f, <<>>)
          IN  /\ r.ok
              /\ producer' = [producer EXCEPT !.pc = "reconciled", !.list = list,
                                              !.planned = r.planned]
    /\ UNCHANGED <<queue, dqueue, workers, done, dworkers, watchers, local, sent>>
    /\ UNCHANGED <<plannerVars, waits, failed>>

\* The reconciliation's transfers and targets go out of scope; the polling
\* loop starts (transfer.rs:203-207).
ProducerEnterLoop ==
    /\ producer.pc = "reconciled"
    /\ producer' = [producer EXCEPT !.pc = "poll", !.list = <<>>, !.planned = <<>>]
    /\ UNCHANGED <<queue, dqueue, workers, done, dworkers, watchers, local, sent>>
    /\ UNCHANGED <<plannerVars, waits, failed>>

\* Vec::retain(|t| active_ids.contains(t))
RECURSIVE Retain(_, _)
Retain(vec, keep) ==
    IF vec = <<>> THEN <<>>
    ELSE IF Head(vec) \in keep THEN <<Head(vec)>> \o Retain(Tail(vec), keep)
    ELSE Retain(Tail(vec), keep)

\* the ids of a list
ActiveIds(list) == {list[i].id : i \in DOMAIN list}

\* a mutant of Prune: nothing is dropped
PruneSkipped(seen, list) == seen

\* a mutant of Prune: the ids still listed are the ones dropped
PruneInverted(seen, list) == Retain(seen, TransferIds \ ActiveIds(list))

\* the prune of one iteration (transfer.rs:223-229)
Prune(seen, list) == Retain(seen, ActiveIds(list))

\* whether the loop skips a listed transfer (transfer.rs:212)
SkipsListed(seen, t) == Contains(seen, t.id) \/ ~is_downloadable(t)

\* The `for` loop of one iteration (transfer.rs:211-221) over an open
\* channel: the transfers sent, in order, and `seen` after it.
RECURSIVE EnqueueLoop(_, _, _)
EnqueueLoop(list, seen, out) ==
    IF list = <<>> THEN [seen |-> seen, out |-> out]
    ELSE LET t == Head(list)
         IN  IF SkipsListed(seen, t) THEN EnqueueLoop(Tail(list), seen, out)
             ELSE EnqueueLoop(Tail(list), Append(seen, t.id), Append(out, TransferFrom(t)))

TotalSent(kind) ==
    LET RECURSIVE Sum(_)
        Sum(n) == IF n = 0 THEN 0 ELSE sent[kind][n] + Sum(n - 1)
    IN  Sum(NumTransfers)

\* `sent` after the events evs were sent
RECURSIVE Count(_, _)
Count(evs, s) ==
    IF evs = <<>> THEN s
    ELSE LET e == Head(evs)
         IN  Count(Tail(evs), [s EXCEPT ![e.kind][e.transfer.transfer_id] = @ + 1])

Events(kind, ts) == [i \in DOMAIN ts |-> Event(kind, ts[i])]

\* the history counter producer.listed after a successful fetch of `list`
\* in which the transfers `out` were sent
Listed(listed, list, out) ==
    [id \in TransferIds |->
        IF id \notin ActiveIds(list) THEN 0
        ELSE IF \E i \in DOMAIN out : out[i].transfer_id = id THEN 1
        ELSE IF listed[id] = 0 THEN 0
        ELSE IF listed[id] < ListedCap THEN listed[id] + 1
        ELSE listed[id]]

\* One iteration of the loop whose list_transfers answers Ok and whose sends
\* all succeed, up to the sleep.
ProducerPoll ==
    /\ producer.pc = "poll"
    /\ \E list \in PollLists :
          LET r == EnqueueLoop(list, producer.seen, <<>>)
              evs == Events("QueuedForDownload", r.out)
          IN  /\ r.out # <<>> => ~EventChannelClosed
              /\ TotalSent("QueuedForDownload") + Len(r.out) <= MaxEnqueue
              /\ queue' = queue \o evs
              /\ sent' = Count(evs, sent)
              /\ producer' = [producer EXCEPT
                    !.pc = "sleep", !.seen = Prune(r.seen, list), !.list = list,
                    !.listed = Listed(producer.listed, list, r.out),
                    !.retrying = FALSE]
    /\ UNCHANGED <<dqueue, workers, done, dworkers, watchers, local>>
    /\ UNCHANGED <<plannerVars, waits, failed>>

\* One iteration whose first send answers Err (the channel is closed):
\* `tx.send(...).await?` returns the error from produce_transfers.
ProducerSendFails ==
    /\ producer.pc = "poll"
    /\ EventChannelClosed
    /\ \E list \in PollLists :
          /\ EnqueueLoop(list, producer.seen, <<>>).out # <<>>
          /\ producer' = [producer EXCEPT !.pc = "send_failed", !.list = list,
                                          !.retrying = FALSE]
    /\ UNCHANGED <<queue, dqueue, workers, done, dworkers, watchers, local, sent>>
    /\ UNCHANGED <<plannerVars, waits, failed>>

\* list_transfers answers Err: warn and `continue` (transfer.rs:246-249).
\* The producer is at the fetch again, without having slept.
ProducerPollFails ==
    /\ producer.pc = "poll"
    /\ producer' = [producer EXCEPT !.pc = "poll", !.retrying = TRUE]
    /\ UNCHANGED <<queue, dqueue, workers, done, dworkers, watchers, local, sent>>
    /\ UNCHANGED <<plannerVars, waits, failed>>

\* sleep(putio_check_interval) ends
ProducerSleep ==
    /\ producer.pc = "sleep"
    /\ producer' = [producer EXCEPT !.pc = "poll", !.list = <<>>]
    /\ UNCHANGED <<queue, dqueue, workers, done, dworkers, watchers, local, sent>>
    /\ UNCHANGED <<plannerVars, waits, failed>>

(***************************************************************************)
(* Worker::work (orchestration.rs:53-113).                                  *)
(*                                                                         *)
(* done[w][i] holds everything sent so far on the reply channel of target i *)
(* of worker w's current handling; the worker receives once from each       *)
(* channel, so its recv takes the first element.  The channels are dropped  *)
(* when the handling ends.                                                  *)
(***************************************************************************)
NextEvent(kind) == queue # <<>> /\ Head(queue).kind = kind

\* a mutant of ReplyChannel: every target gets the first channel
ReplyChannelFirst(w, i) == <<w, 1>>

\* the reply channel handed out with target i (orchestration.rs:70)
ReplyChannel(w, i) == <<w, i>>

\* DownloadTargetMessage
DownloadTargetMessage(target, tx) == [download_target |-> target, tx |-> tx]

\* `t.get_download_targets().await?` answers Err: work() returns the error,
\* the worker's task ends and its Receiver is dropped.
OWPlanFails(w) ==
    /\ workers[w].pc = "recv"
    /\ NextEvent("QueuedForDownload")
    /\ \E f \in Failures(files) :
          ~get_download_targets(files, skip_directories,
                                Unwrap(Head(queue).transfer.file_id), f[1], f[2]).ok
    /\ queue' = Tail(queue)
    /\ workers' = [workers EXCEPT ![w] =
          [WorkerIdle EXCEPT !.pc = "ended", !.transfer = Head(queue).transfer]]
    /\ UNCHANGED <<producer, dqueue, done, dworkers, watchers, local, sent>>
    /\ UNCHANGED <<plannerVars, waits, failed>>

\* a mutant of OWDispatch: the worker sends the first target only and starts
\* to wait for the replies
OWDispatchFirstOnly(w) ==
    /\ workers[w].pc = "recv"
    /\ NextEvent("QueuedForDownload")
    /\ LET t == Head(queue).transfer
           r == get_download_targets(files, skip_directories, Unwrap(t.file_id), {}, {})
       IN  /\ r.ok
           /\ done' = [done EXCEPT ![w] = [i \in DOMAIN r.targets |-> <<>>]]
           /\ dqueue' = dqueue \o
                 [i \in DOMAIN r.targets \cap {1} |->
                     DownloadTargetMessage(r.targets[i], ReplyChannel(w, i))]
           /\ workers' = [workers EXCEPT ![w] =
                 [pc |-> "wait", transfer |-> t, targets |-> r.targets,
                  all_downloaded |-> <<>>]]
    /\ queue' = Tail(queue)
    /\ UNCHANGED <<producer, dworkers, watchers, local, sent>>
    /\ UNCHANGED <<plannerVars, waits, failed>>

\* QueuedForDownload(t), planned: one reply channel per target, every target
\* sent to the dispatch channel (orchestration.rs:59-77).
OWDispatch(w) ==
    /\ workers[w].pc = "recv"
    /\ NextEvent("QueuedForDownload")
    /\ LET t == Head(queue).transfer
           r == get_download_targets(files, skip_directories, Unwrap(t.file_id), {}, {})
       IN  /\ r.ok
           /\ done' = [done EXCEPT ![w] = [i \in DOMAIN r.targets |-> <<>>]]
           /\ dqueue' = dqueue \o
                 [i \in DOMAIN r.targets |->
                     DownloadTargetMessage(r.targets[i], ReplyChannel(w, i))]
           /\ workers' = [workers EXCEPT ![w] =
                 [pc |-> "wait", transfer |-> t, targets |-> r.targets,
                  all_downloaded |-> <<>>]]
    /\ queue' = Tail(queue)
    /\ UNCHANGED <<producer, dworkers, watchers, local, sent>>
    /\ UNCHANGED <<plannerVars, waits, failed>>

\* `all_downloaded.push(done_rx.recv().await?)`, in target order
\* (orchestration.rs:80-83)
OWCollect(w) ==
    /\ workers[w].pc = "wait"
    /\ LET i == Len(workers[w].all_downloaded) + 1
       IN  /\ i <= Len(workers[w].targets)
           /\ done[w][i] # <<>>
           /\ workers' = [workers EXCEPT ![w].all_downloaded = Append(@, done[w][i][1])]
    /\ UNCHANGED <<producer, queue, dqueue, done, dworkers, watchers, local, sent>>
    /\ UNCHANGED <<plannerVars, waits, failed>>

\* a mutant of AllDownloaded: no outcome at all does not count as downloaded
SomeAndAllDownloaded(outcomes) ==
    outcomes # <<>> /\ \A i \in DOMAIN outcomes : outcomes[i].status = "Success"

\* a mutant of AllDownloaded: one Success is enough
SomeDownloaded(outcomes) ==
    outcomes = <<>> \/ \E i \in DOMAIN outcomes : outcomes[i].status = "Success"

\* `all_downloaded.iter().all(...)` (orchestration.rs:86-89)
AllDownloaded(outcomes) == \A i \in DOMAIN outcomes : outcomes[i].status = "Success"

\* Every outcome is collected: send Downloaded if all are Success, warn
\* otherwise; back to recv (orchestration.rs:86-100).
OWAggregate(w) ==
    /\ workers[w].pc = "wait"
    /\ Len(workers[w].all_downloaded) = Len(workers[w].targets)
    /\ LET t == workers[w].transfer
           ev == Event("Downloaded", [t EXCEPT !.targets = Some(workers[w].targets)])
       IN  IF AllDownloaded(workers[w].all_downloaded)
           THEN /\ queue' = Append(queue, ev)
                /\ sent' = Count(<<ev>>, sent)
           ELSE UNCHANGED <<queue, sent>>
    /\ failed' = IF \E i \in DOMAIN workers[w].all_downloaded :
                        workers[w].all_downloaded[i].status = "Failed"
                 THEN [failed EXCEPT ![workers[w].transfer.transfer_id] = @ + 1]
                 ELSE failed
    /\ workers' = [workers EXCEPT ![w] = WorkerIdle]
    /\ done' = [done EXCEPT ![w] = <<>>]
    /\ UNCHANGED <<producer, dqueue, dworkers, watchers, local>>
    /\ UNCHANGED <<plannerVars, waits>>

\* a mutant of WatcherOf: the seeding watcher is spawned for Downloaded
WatcherOfSwapped(kind) == IF kind = "Downloaded" THEN "seeding" ELSE "import"

\* the watcher a match arm spawns (orchestration.rs:103-110)
WatcherOf(kind) == IF kind = "Downloaded" THEN "import" ELSE "seeding"

Watcher(kind, t) == [kind |-> kind, transfer |-> t, pc |-> "poll", calls |-> <<>>]

\* a mutant of OWSpawnImport: the worker awaits the watcher it starts
OWSpawnImportAwaits(w) ==
    /\ workers[w].pc = "recv"
    /\ NextEvent("Downloaded")
    /\ watchers' = Append(watchers, Watcher(WatcherOf("Downloaded"), Head(queue).transfer))
    /\ queue' = Tail(queue)
    /\ workers' = [workers EXCEPT ![w].pc = "await", ![w].transfer = Head(queue).transfer]
    /\ UNCHANGED <<producer, dqueue, done, dworkers, local, sent>>
    /\ UNCHANGED <<plannerVars, waits, failed>>

\* Downloaded(t): spawn watch_for_import, go on (orchestration.rs:103-106)
OWSpawnImport(w) ==
    /\ workers[w].pc = "recv"
    /\ NextEvent("Downloaded")
    /\ watchers' = Append(watchers, Watcher(WatcherOf("Downloaded"), Head(queue).transfer))
    /\ queue' = Tail(queue)
    /\ UNCHANGED <<producer, dqueue, workers, done, dworkers, local, sent>>
    /\ UNCHANGED <<plannerVars, waits, failed>>

\* Imported(t): spawn watch_seeding, go on (orchestration.rs:108-110)
OWSpawnSeeding(w) ==
    /\ workers[w].pc = "recv"
    /\ NextEvent("Imported")
    /\ watchers' = Append(watchers, Watcher(WatcherOf("Imported"), Head(queue).transfer))
    /\ queue' = Tail(queue)
    /\ UNCHANGED <<producer, dqueue, workers, done, dworkers, local, sent>>
    /\ UNCHANGED <<plannerVars, waits, failed>>

(***************************************************************************)
(* The download worker, after section 4.4 of the specification: it takes    *)
(* one dispatch at a time and sends exactly one outcome on its reply        *)
(* channel.                                                                 *)
(***************************************************************************)
Outcome(status, target) == [status |-> status, target |-> target]

\* Sender::send on the reply channel tx
SendOutcome(tx, outcome) ==
    IF tx[1] \in DOMAIN done /\ tx[2] \in DOMAIN done[tx[1]]
    THEN [done EXCEPT ![tx[1]][tx[2]] = Append(@, outcome)]
    ELSE done

\* a mutant of DWRecv: the worker takes the next dispatch whatever it is doing
DWRecvWhileBusy(d) ==
    /\ dqueue # <<>>
    /\ dworkers' = [dworkers EXCEPT ![d] =
          [pc |-> "busy", download_target |-> Head(dqueue).download_target,
           tx |-> Head(dqueue).tx]]
    /\ dqueue' = Tail(dqueue)
    /\ UNCHANGED <<producer, queue, workers, done, watchers, local, sent>>
    /\ UNCHANGED <<plannerVars, waits, failed>>

\* the worker is idle and takes the next dispatch
DWRecv(d) ==
    /\ dworkers[d].pc = "recv"
    /\ dqueue # <<>>
    /\ dworkers' = [dworkers EXCEPT ![d] =
          [pc |-> "busy", download_target |-> Head(dqueue).download_target,
           tx |-> Head(dqueue).tx]]
    /\ dqueue' = Tail(dqueue)
    /\ UNCHANGED <<producer, queue, workers, done, watchers, local, sent>>
    /\ UNCHANGED <<plannerVars, waits, failed>>

\* the directory exists or is created, the file is streamed to its path
DWSucceed(d) ==
    /\ dworkers[d].pc = "busy"
    /\ LET target == dworkers[d].download_target
       IN  /\ local' = [local EXCEPT ![target.to] =
                           IF target.target_type = "Directory" THEN "dir" ELSE "file"]
           /\ done' = SendOutcome(dworkers[d].tx, Outcome("Success", target))
    /\ dworkers' = [dworkers EXCEPT ![d] = DWorkerIdle]
    /\ UNCHANGED <<producer, queue, dqueue, workers, watchers, sent>>
    /\ UNCHANGED <<plannerVars, waits, failed>>

\* an I/O or transfer error while streaming a File target
DWFail(d) ==
    /\ dworkers[d].pc = "busy"
    /\ dworkers[d].download_target.target_type = "File"
    /\ done' = SendOutcome(dworkers[d].tx, Outcome("Failed", dworkers[d].download_target))
    /\ dworkers' = [dworkers EXCEPT ![d] = DWorkerIdle]
    /\ UNCHANGED <<producer, queue, dqueue, workers, watchers, local, sent>>
    /\ UNCHANGED <<plannerVars, waits, failed>>

(***************************************************************************)
(* watch_for_import (orchestration.rs:117-151).  Transfer::is_imported is   *)
(* the Import Oracle of section 4.5: a boolean the environment decides.  A  *)
(* panic ends the task that panics: the runtime catches it at the task's    *)
(* boundary.                                                                *)
(***************************************************************************)
\* Transfer::get_top_level, as an Option: the source unwraps it
get_top_level(t) ==
    LET targets == Unwrap(t.targets)
        tops == {i \in DOMAIN targets : targets[i].top_level}
    IN  IF tops = {} THEN None
        ELSE Some(targets[CHOOSE i \in tops : \A j \in tops : i <= j])

IsWatcher(k, kind, pc) ==
    /\ k \in DOMAIN watchers
    /\ watchers[k].kind = kind
    /\ watchers[k].pc = pc

\* the most polls that told a watcher to wait which a behaviour records
MaxPolls == 2

\* the log of a watcher after the call `call`
Called(k, call) == Append(watchers[k].calls, call)

\* A poll that tells watcher k to wait: the watcher sleeps one polling
\* interval and polls again.  The poll is recorded in the watcher's log while
\* `waits` lasts; past it the log is left as it is.
Wait(k, call) ==
    IF waits > 0
    THEN /\ watchers' = [watchers EXCEPT ![k].calls = Called(k, call)]
         /\ waits' = waits - 1
    ELSE UNCHANGED <<watchers, waits>>

\* is_imported answers false: sleep one polling interval
IWNotImported(k) ==
    /\ IsWatcher(k, "import", "poll")
    /\ Wait(k, "is_imported")
    /\ UNCHANGED <<producer, queue, dqueue, workers, done, dworkers, local, sent>>
    /\ UNCHANGED <<plannerVars, failed>>

\* is_imported answers true and there is no top-level target:
\* get_top_level's unwrap panics
IWNoTopLevel(k) ==
    /\ IsWatcher(k, "import", "poll")
    /\ get_top_level(watchers[k].transfer) = None
    /\ watchers' = [watchers EXCEPT ![k].pc = "panicked",
                                    ![k].calls = Called(k, "is_imported")]
    /\ UNCHANGED <<producer, queue, dqueue, workers, done, dworkers, local, sent>>
    /\ UNCHANGED <<plannerVars, waits, failed>>

\* a mutant of IWCleanup: Imported is sent and the path stays
IWCleanupKeepsPath(k) ==
    /\ IsWatcher(k, "import", "poll")
    /\ get_top_level(watchers[k].transfer) # None
    /\ LET to == Unwrap(get_top_level(watchers[k].transfer)).to
           ev == Event("Imported", watchers[k].transfer)
       IN  /\ local[to] \in {"dir", "file"}
           /\ watchers' = [watchers EXCEPT ![k].pc = "done",
                                           ![k].calls = Called(k, "is_imported")]
           /\ queue' = Append(queue, ev)
           /\ sent' = Count(<<ev>>, sent)
    /\ UNCHANGED <<producer, dqueue, workers, done, dworkers, local>>
    /\ UNCHANGED <<plannerVars, waits, failed>>

\* is_imported answers true, the top-level path is a directory or a file:
\* it is removed and Imported is sent
IWCleanup(k) ==
    /\ IsWatcher(k, "import", "poll")
    /\ get_top_level(watchers[k].transfer) # None
    /\ LET to == Unwrap(get_top_level(watchers[k].transfer)).to
           ev == Event("Imported", watchers[k].transfer)
       IN  /\ local[to] \in {"dir", "file"}
           /\ local' = [local EXCEPT ![to] = "missing"]
           /\ IF EventChannelClosed
              THEN /\ watchers' = [watchers EXCEPT ![k].pc = "err",
                                                   ![k].calls = Called(k, "is_imported")]
                   /\ UNCHANGED <<queue, sent>>
              ELSE /\ watchers' = [watchers EXCEPT ![k].pc = "done",
                                                   ![k].calls = Called(k, "is_imported")]
                   /\ queue' = Append(queue, ev)
                   /\ sent' = Count(<<ev>>, sent)
    /\ UNCHANGED <<producer, dqueue, workers, done, dworkers>>
    /\ UNCHANGED <<plannerVars, waits, failed>>

\* a mutant of IWCleanupPanics: the panic takes the orchestration workers
\* down with the watcher
IWCleanupPanicsAll(k) ==
    /\ IsWatcher(k, "import", "poll")
    /\ get_top_level(watchers[k].transfer) # None
    /\ watchers' = [watchers EXCEPT ![k].pc = "panicked",
                                    ![k].calls = Called(k, "is_imported")]
    /\ workers' = [w \in OWorkers |-> [WorkerIdle EXCEPT !.pc = "ended"]]
    /\ UNCHANGED <<producer, queue, dqueue, done, dworkers, local, sent>>
    /\ UNCHANGED <<plannerVars, waits, failed>>

\* is_imported answers true and metadata answers neither a directory nor a
\* file (the path is missing, special, or the stat fails), or the removal
\* fails: the watcher panics
IWCleanupPanics(k) ==
    /\ IsWatcher(k, "import", "poll")
    /\ get_top_level(watchers[k].transfer) # None
    /\ watchers' = [watchers EXCEPT ![k].pc = "panicked",
                                    ![k].calls = Called(k, "is_imported")]
    /\ UNCHANGED <<producer, queue, dqueue, workers, done, dworkers, local, sent>>
    /\ UNCHANGED <<plannerVars, waits, failed>>

(***************************************************************************)
(* watch_seeding (orchestration.rs:154-184).                                *)
(***************************************************************************)
\* a mutant of SWSeeding: the transfer is removed while it is seeding
SWSeedingRemoves(k) ==
    /\ IsWatcher(k, "seeding", "poll")
    /\ Wait(k, "remove_transfer")
    /\ UNCHANGED <<producer, queue, dqueue, workers, done, dworkers, local, sent>>
    /\ UNCHANGED <<plannerVars, failed>>

\* the status is Seeding: sleep one polling interval
SWSeeding(k) ==
    /\ IsWatcher(k, "seeding", "poll")
    /\ Wait(k, "get_transfer")
    /\ UNCHANGED <<producer, queue, dqueue, workers, done, dworkers, local, sent>>
    /\ UNCHANGED <<plannerVars, failed>>

\* a mutant of SWStatusFails: the error is logged and the watcher polls again
SWStatusFailsPollsAgain(k) ==
    /\ IsWatcher(k, "seeding", "poll")
    /\ watchers' = [watchers EXCEPT ![k].calls = Called(k, "get_transfer: Err")]
    /\ UNCHANGED <<producer, queue, dqueue, workers, done, dworkers, local, sent>>
    /\ UNCHANGED <<plannerVars, waits, failed>>

\* putio::get_transfer answers Err: the watcher returns the error
SWStatusFails(k) ==
    /\ IsWatcher(k, "seeding", "poll")
    /\ watchers' = [watchers EXCEPT ![k].pc = "err",
                                    ![k].calls = Called(k, "get_transfer: Err")]
    /\ UNCHANGED <<producer, queue, dqueue, workers, done, dworkers, local, sent>>
    /\ UNCHANGED <<plannerVars, waits, failed>>

\* the status is not Seeding
SWStopped(k) ==
    /\ IsWatcher(k, "seeding", "poll")
    /\ watchers' = [watchers EXCEPT ![k].pc = "remove",
                                    ![k].calls = Called(k, "get_transfer")]
    /\ UNCHANGED <<producer, queue, dqueue, workers, done, dworkers, local, sent>>
    /\ UNCHANGED <<plannerVars, waits, failed>>

\* putio::remove_transfer answers Ok
SWRemove(k) ==
    /\ IsWatcher(k, "seeding", "remove")
    /\ watchers' = [watchers EXCEPT ![k].pc = "delete",
                                    ![k].calls = Called(k, "remove_transfer")]
    /\ UNCHANGED <<producer, queue, dqueue, workers, done, dworkers, local, sent>>
    /\ UNCHANGED <<plannerVars, waits, failed>>

\* a mutant of SWRemoveFails: the error is dropped and the watcher goes on
SWRemoveFailsGoesOn(k) ==
    /\ IsWatcher(k, "seeding", "remove")
    /\ watchers' = [watchers EXCEPT ![k].pc = "delete",
                                    ![k].calls = Called(k, "remove_transfer: Err")]
    /\ UNCHANGED <<producer, queue, dqueue, workers, done, dworkers, local, sent>>
    /\ UNCHANGED <<plannerVars, waits, failed>>

\* putio::remove_transfer answers Err: the watcher returns the error
SWRemoveFails(k) ==
    /\ IsWatcher(k, "seeding", "remove")
    /\ watchers' = [watchers EXCEPT ![k].pc = "err",
                                    ![k].calls = Called(k, "remove_transfer: Err")]
    /\ UNCHANGED <<producer, queue, dqueue, workers, done, dworkers, local, sent>>
    /\ UNCHANGED <<plannerVars, waits, failed>>

\* a mutant of SWDelete: the watcher reports the transfer as imported again
SWDeleteSends(k) ==
    /\ IsWatcher(k, "seeding", "delete")
    /\ watchers' = [watchers EXCEPT ![k].pc = "done",
                                    ![k].calls = Called(k, "delete_file")]
    /\ queue' = Append(queue, Event("Imported", watchers[k].transfer))
    /\ sent' = Count(<<Event("Imported", watchers[k].transfer)>>, sent)
    /\ UNCHANGED <<producer, dqueue, workers, done, dworkers, local>>
    /\ UNCHANGED <<plannerVars, waits, failed>>

\* putio::delete_file answers Ok: the loop breaks, the watcher returns Ok
SWDelete(k) ==
    /\ IsWatcher(k, "seeding", "delete")
    /\ watchers' = [watchers EXCEPT ![k].pc = "done",
                                    ![k].calls = Called(k, "delete_file")]
    /\ UNCHANGED <<producer, queue, dqueue, workers, done, dworkers, local, sent>>
    /\ UNCHANGED <<plannerVars, waits, failed>>

\* a mutant of SWDeleteFails: the error is returned
SWDeleteFailsErr(k) ==
    /\ IsWatcher(k, "seeding", "delete")
    /\ watchers' = [watchers EXCEPT ![k].pc = "err",
                                    ![k].calls = Called(k, "delete_file: Err")]
    /\ UNCHANGED <<producer, queue, dqueue, workers, done, dworkers, local, sent>>
    /\ UNCHANGED <<plannerVars, waits, failed>>

\* putio::delete_file answers Err: a warning, then the same break and Ok
SWDeleteFails(k) ==
    /\ IsWatcher(k, "seeding", "delete")
    /\ watchers' = [watchers EXCEPT ![k].pc = "done",
                                    ![k].calls = Called(k, "delete_file: Err")]
    /\ UNCHANGED <<producer, queue, dqueue, workers, done, dworkers, local, sent>>
    /\ UNCHANGED <<plannerVars, waits, failed>>

\* the watcher tasks one behaviour can hold
WatcherIds == 1..(2 * MaxEnqueue)

Next ==
    \/ ProducerStartupListFails
    \/ ProducerStartupPlanFails
    \/ ProducerStartup
    \/ ProducerEnterLoop
    \/ ProducerPoll
    \/ ProducerSendFails
    \/ ProducerPollFails
    \/ ProducerSleep
    \/ \E w \in OWorkers :
          \/ OWPlanFails(w)
          \/ OWDispatch(w)
          \/ OWCollect(w)
          \/ OWAggregate(w)
          \/ OWSpawnImport(w)
          \/ OWSpawnSeeding(w)
    \/ \E d \in DWorkers :
          \/ DWRecv(d)
          \/ DWSucceed(d)
          \/ DWFail(d)
    \/ \E k \in WatcherIds :
          \/ IWNotImported(k)
          \/ IWNoTopLevel(k)
          \/ IWCleanup(k)
          \/ IWCleanupPanics(k)
          \/ SWSeeding(k)
          \/ SWStatusFails(k)
          \/ SWStopped(k)
          \/ SWRemove(k)
          \/ SWRemoveFails(k)
          \/ SWDelete(k)
          \/ SWDeleteFails(k)

Spec == Init /\ [][Next]_vars

\* The runtime polls every task that can run, and a download ends (with
\* Success or with Failed): a download worker that can take a dispatch or send
\* an outcome does, an orchestration worker whose reply has arrived receives
\* it and goes on.
DWFinish(d) == DWSucceed(d) \/ DWFail(d)

FairSpec ==
    /\ Spec
    /\ \A d \in DWorkers : WF_vars(DWRecv(d)) /\ WF_vars(DWFinish(d))
    /\ \A w \in OWorkers : WF_vars(OWCollect(w)) /\ WF_vars(OWAggregate(w))

\* Fair scheduling of the whole pipeline: besides the tasks of FairSpec, an
\* orchestration worker that can receive an event does, the producer's sleep
\* ends and its fetch eventually answers, the Import Oracle
\* eventually answers true, the remote status eventually differs from
\* Seeding, and the remote calls of a seeding watcher return.
OWHandle(w) == OWPlanFails(w) \/ OWDispatch(w) \/ OWSpawnImport(w) \/ OWSpawnSeeding(w)

IWImported(k) == IWNoTopLevel(k) \/ IWCleanup(k) \/ IWCleanupPanics(k)

SWRemoveReturns(k) == SWRemove(k) \/ SWRemoveFails(k)

SWDeleteReturns(k) == SWDelete(k) \/ SWDeleteFails(k)

LiveSpec ==
    /\ FairSpec
    /\ WF_vars(ProducerSleep) /\ WF_vars(ProducerPoll)
    /\ \A w \in OWorkers : WF_vars(OWHandle(w))
    /\ \A k \in WatcherIds :
          /\ WF_vars(IWImported(k))
          /\ WF_vars(SWStopped(k))
          /\ WF_vars(SWRemoveReturns(k))
          /\ WF_vars(SWDeleteReturns(k))

(***************************************************************************)
(* The watchers on their own.  The behaviours start where a poll has        *)
(* enqueued the transfers of one list, the workers have planned them, every *)
(* target is downloaded and the Downloaded events wait in the queue; they   *)
(* follow the two match arms that spawn watchers and the watchers, whose    *)
(* waiting polls are recorded.                                              *)
(***************************************************************************)
\* the lists whose transfers are all downloadable
WatcherLists ==
    { list \in PollLists :
        list # <<>> /\ \A i \in DOMAIN list : is_downloadable(list[i]) }

\* the targets planned for transfer t
PlannedTargets(t) ==
    get_download_targets(PipelineFiles, PipelineSkip, Unwrap(t.file_id), {}, {}).targets

\* the Downloaded events of the transfers ts (orchestration.rs:91-96)
DownloadedEvents(ts) ==
    [i \in DOMAIN ts |->
        Event("Downloaded", [ts[i] EXCEPT !.targets = Some(PlannedTargets(ts[i]))])]

\* the local file system once every target of the transfers ts is downloaded
DownloadedPaths(ts) ==
    [p \in Paths |->
        IF \E i \in DOMAIN ts : \E j \in DOMAIN PlannedTargets(ts[i]) :
               PlannedTargets(ts[i])[j].to = p /\ PlannedTargets(ts[i])[j].target_type = "Directory"
        THEN "dir"
        ELSE IF \E i \in DOMAIN ts : \E j \in DOMAIN PlannedTargets(ts[i]) :
               PlannedTargets(ts[i])[j].to = p
        THEN "file"
        ELSE "missing"]

WatcherInit ==
    /\ files = PipelineFiles
    /\ skip_directories = PipelineSkip
    /\ plan = NotPlanned
    /\ \E list \in WatcherLists :
          LET r == EnqueueLoop(list, <<>>, <<>>)
              evs == DownloadedEvents(r.out)
          IN  /\ producer = [ProducerStart EXCEPT
                    !.pc = "sleep", !.seen = Prune(r.seen, list), !.list = list,
                    !.listed = Listed(ProducerStart.listed, list, r.out)]
              /\ queue = evs
              /\ local = DownloadedPaths(r.out)
              /\ sent = Count(evs, Count(Events("QueuedForDownload", r.out),
                                         [k \in EventKinds |-> [id \in TransferIds |-> 0]]))
    /\ dqueue = <<>>
    /\ workers = [w \in OWorkers |-> WorkerIdle]
    /\ done = [w \in OWorkers |-> <<>>]
    /\ dworkers = [d \in DWorkers |-> DWorkerIdle]
    /\ watchers = <<>>
    /\ waits = MaxPolls
    /\ failed = [id \in TransferIds |-> 0]

WatcherNext ==
    \/ \E w \in OWorkers :
          \/ OWSpawnImport(w)
          \/ OWSpawnSeeding(w)
    \/ \E k \in WatcherIds :
          \/ IWNotImported(k)
          \/ IWNoTopLevel(k)
          \/ IWCleanup(k)
          \/ IWCleanupPanics(k)
          \/ SWSeeding(k)
          \/ SWStatusFails(k)
          \/ SWStopped(k)
          \/ SWRemove(k)
          \/ SWRemoveFails(k)
          \/ SWDelete(k)
          \/ SWDeleteFails(k)

WatcherSpec == WatcherInit /\ [][WatcherNext]_vars

\* the pipeline reaches the states the watchers' behaviours start in
\* (checked as the negation of an invariant of Spec, one list at a time)
WatcherStartOf(list) ==
    LET r == EnqueueLoop(list, <<>>, <<>>)
        evs == DownloadedEvents(r.out)
    IN  /\ producer.pc = "sleep" /\ producer.seen = Prune(r.seen, list)
        /\ producer.list = list
        /\ producer.listed = Listed(ProducerStart.listed, list, r.out)
        /\ queue = evs
        /\ local = DownloadedPaths(r.out)
        /\ sent = Count(evs, Count(Events("QueuedForDownload", r.out),
                                   [k \in EventKinds |-> [id \in TransferIds |-> 0]]))
        /\ dqueue = <<>> /\ watchers = <<>>
        /\ workers = [w \in OWorkers |-> WorkerIdle]
        /\ done = [w \in OWorkers |-> <<>>]
        /\ dworkers = [d \in DWorkers |-> DWorkerIdle]

(***************************************************************************)
(* The download phase of one transfer over every tree the planner is        *)
(* checked on.  The behaviours start where a poll has enqueued transfer 1,   *)
(* whose file_id is the root of the tree; they follow the planning, the      *)
(* dispatch, the download workers and the aggregation.                       *)
(***************************************************************************)
\* the transfer whose root is the tree's root, as list_transfers answers it
RootTransfer == PutIOTransfer(1, Some(RootId), Some(RootFolderId))

DispatchInit ==
    /\ \E k \in 1..MaxNodes : files \in Trees(k)
    /\ skip_directories \in SkipLists
    /\ plan = NotPlanned
    /\ LET r == EnqueueLoop(<<RootTransfer>>, <<>>, <<>>)
           evs == Events("QueuedForDownload", r.out)
       IN  /\ producer = [ProducerStart EXCEPT
                 !.pc = "sleep", !.seen = Prune(r.seen, <<RootTransfer>>),
                 !.list = <<RootTransfer>>,
                 !.listed = Listed(ProducerStart.listed, <<RootTransfer>>, r.out)]
           /\ queue = evs
           /\ sent = Count(evs, [k \in EventKinds |-> [id \in TransferIds |-> 0]])
    /\ dqueue = <<>>
    /\ workers = [w \in OWorkers |-> WorkerIdle]
    /\ done = [w \in OWorkers |-> <<>>]
    /\ dworkers = [d \in DWorkers |-> DWorkerIdle]
    /\ watchers = <<>>
    /\ local = [p \in Paths |-> "missing"]
    /\ waits = 0
    /\ failed = [id \in TransferIds |-> 0]

DispatchNext ==
    \/ \E w \in OWorkers :
          \/ OWPlanFails(w)
          \/ OWDispatch(w)
          \/ OWCollect(w)
          \/ OWAggregate(w)
    \/ \E d \in DWorkers :
          \/ DWRecv(d)
          \/ DWSucceed(d)
          \/ DWFail(d)

DispatchSpec == DispatchInit /\ [][DispatchNext]_vars

(***************************************************************************)
(* The pipeline's claims.                                                   *)
(***************************************************************************)
\* worker w ends the handling of a QueuedForDownload event in this step
EndsHandling(w) == workers[w].pc = "wait" /\ workers'[w].pc # "wait"

\* every target of worker w's handling has a reported outcome, all Success
AllReportedSuccess(w) ==
    \A i \in DOMAIN workers[w].targets :
        /\ done[w][i] # <<>>
        /\ \A j \in DOMAIN done[w][i] : done[w][i][j].status = "Success"

\* C1: the step that ends the handling of QueuedForDownload(t) puts
\* Downloaded(t), with the targets, on the event queue if and only if every
\* dispatched target reported Success, and leaves the queue alone otherwise;
\* no other step sends a Downloaded event.
C1_DownloadedIffAllSuccess ==
    [][ /\ \A w \in OWorkers :
              EndsHandling(w) =>
                  LET t == workers[w].transfer
                      ev == Event("Downloaded", [t EXCEPT !.targets = Some(workers[w].targets)])
                  IN  /\ AllReportedSuccess(w) =>
                            /\ queue' = Append(queue, ev)
                            /\ sent'["Downloaded"][t.transfer_id] = sent["Downloaded"][t.transfer_id] + 1
                      /\ ~AllReportedSuccess(w) =>
                            /\ queue' = queue
                            /\ sent' = sent
        /\ sent'["Downloaded"] # sent["Downloaded"] => \E w \in OWorkers : EndsHandling(w)
      ]_vars

\* C1's case: a handling whose outcomes are all collected, one of them Failed,
\* after another handling has sent Downloaded
C1_Witness ==
    /\ TotalSent("Downloaded") >= 1
    /\ \E w \in OWorkers :
          /\ workers[w].pc = "wait"
          /\ Len(workers[w].targets) = 2
          /\ Len(workers[w].all_downloaded) = 2
          /\ \E i \in 1..2 : workers[w].all_downloaded[i].status = "Failed"

\* the positions a target can have in a plan of the pipeline's files
TargetIndexes ==
    UNION { DOMAIN get_download_targets(PipelineFiles, PipelineSkip, n, {}, {}).targets :
              n \in DOMAIN PipelineFiles }

\* C3: no reply channel ever holds more than one sent outcome; every reply
\* channel that is dispatched and still without an outcome eventually has
\* exactly one; an orchestration worker that waits for replies eventually is
\* back at receiving events.
C3_ExactlyOneOutcome ==
    /\ [](\A w \in OWorkers : \A i \in DOMAIN done[w] : Len(done[w][i]) <= 1)
    /\ \A w \in OWorkers : \A i \in TargetIndexes :
          (i \in DOMAIN done[w] /\ done[w][i] = <<>>)
            ~> (i \in DOMAIN done[w] /\ Len(done[w][i]) = 1)
    /\ \A w \in OWorkers : (workers[w].pc = "wait") ~> (workers[w].pc = "recv")

\* C3's case: the second target of a handling has its outcome, a Failed one,
\* while the first has none yet and the worker waits for it
C3_Witness ==
    \E w \in OWorkers :
        /\ workers[w].pc = "wait"
        /\ DOMAIN done[w] = 1..2
        /\ done[w][1] = <<>>
        /\ Len(done[w][2]) = 1
        /\ done[w][2][1].status = "Failed"

\* the watchers of a kind spawned for a transfer id
WatchersOf(kind, id) ==
    {k \in DOMAIN watchers : watchers[k].kind = kind /\ watchers[k].transfer.transfer_id = id}

\* the watchers that have issued putio::remove_transfer for a transfer id
Removals(id) ==
    {k \in DOMAIN watchers :
        /\ watchers[k].transfer.transfer_id = id
        /\ \/ Contains(watchers[k].calls, "remove_transfer")
           \/ Contains(watchers[k].calls, "remove_transfer: Err")}

\* C2: per transfer id, no more Downloaded events are sent than
\* QueuedForDownload events, no more import watchers are started than
\* Downloaded events sent, no more Imported events are sent than import
\* watchers started, and no more seeding watchers are started and no more
\* remote removals issued than Imported events sent.
C2_StageOrder ==
    \A id \in TransferIds :
        /\ sent["Downloaded"][id] <= sent["QueuedForDownload"][id]
        /\ Cardinality(WatchersOf("import", id)) <= sent["Downloaded"][id]
        /\ sent["Imported"][id] <= Cardinality(WatchersOf("import", id))
        /\ Cardinality(WatchersOf("seeding", id)) <= sent["Imported"][id]
        /\ Cardinality(Removals(id)) <= sent["Imported"][id]

\* C2's case: a transfer went through every stage, up to the remote removal
C2_Witness ==
    \E id \in TransferIds :
        /\ Removals(id) # {}
        /\ WatchersOf("import", id) # {}

\* C4: while an id has been listed by every successful fetch since
\* QueuedForDownload was sent for it, no step sends QueuedForDownload for it.
C4_NoReenqueueWhileListed ==
    [][ \A id \in TransferIds :
            producer.listed[id] >= 1 =>
                sent'["QueuedForDownload"][id] = sent["QueuedForDownload"][id] ]_vars

\* C4's case: an id was enqueued by one poll and listed again by a later one
C4_Witness ==
    \E id \in TransferIds :
        /\ producer.listed[id] = ListedCap
        /\ sent["QueuedForDownload"][id] = 1
        /\ producer.pc = "sleep"
        /\ \E i \in DOMAIN producer.list :
              producer.list[i].id = id /\ is_downloadable(producer.list[i])

\* the step is one iteration of the polling loop whose fetch succeeded
FetchedList == producer.pc = "poll" /\ producer'.pc \in {"sleep", "send_failed"}

\* C5: an iteration whose fetched list holds, downloadable, an id that was
\* enqueued before and has been absent from a fetched list since, sends
\* QueuedForDownload for it.
C5_ReenqueuedAfterAbsence ==
    [][ FetchedList =>
            \A i \in DOMAIN producer'.list :
                LET t == producer'.list[i]
                IN  ( /\ is_downloadable(t)
                      /\ sent["QueuedForDownload"][t.id] >= 1
                      /\ producer.listed[t.id] = 0 )
                    => sent'["QueuedForDownload"][t.id] = sent["QueuedForDownload"][t.id] + 1
      ]_vars

\* the ids of a list that the startup pass is to plan
OwnedDownloadable(list) ==
    {list[i].id : i \in {j \in DOMAIN list :
        list[j].save_parent_id = Some(RootFolderId) /\ is_downloadable(list[j])}}

C9_WorkersStayLive ==
    \A w \in OWorkers : workers[w].pc # "ended"

\* C10: once in its polling loop, produce_transfers never returns.
C10_ProducerLoopNeverReturns ==
    producer.pc # "send_failed"

\* watcher k is an import watcher whose transfer has a top-level target
HasTopLevel(k) ==
    /\ k \in DOMAIN watchers
    /\ watchers[k].kind = "import"
    /\ get_top_level(watchers[k].transfer) # None

C13_NoTopLevelTolerated ==
    \A k \in DOMAIN watchers :
        ( watchers[k].kind = "import" /\ get_top_level(watchers[k].transfer) = None )
            => watchers[k].pc # "panicked"

\* the import watchers of transfer id that have returned Ok
ImportersDone(id) ==
    {k \in DOMAIN watchers :
        /\ watchers[k].kind = "import"
        /\ watchers[k].transfer.transfer_id = id
        /\ watchers[k].pc = "done"}

\* C14: Imported(t) is sent once by each import watcher of t that has ended
\* well and by nothing else; the step that sends it is the step of an import
\* watcher whose oracle answered true and that removes the top-level path; a
\* poll the oracle answers with false changes the watcher's log only; a
\* watcher that has ended does nothing more.
C14_ImportedOnceAfterCleanup ==
    /\ [](\A id \in TransferIds : sent["Imported"][id] = Cardinality(ImportersDone(id)))
    /\ [][ sent'["Imported"] # sent["Imported"] =>
              \E k \in DOMAIN watchers :
                  LET t == watchers[k].transfer
                      to == Unwrap(get_top_level(t)).to
                  IN  /\ HasTopLevel(k)
                      /\ watchers[k].pc = "poll" /\ watchers'[k].pc = "done"
                      /\ local[to] \in {"dir", "file"} /\ local'[to] = "missing"
                      /\ queue' = Append(queue, Event("Imported", t))
                      /\ sent' = [sent EXCEPT !["Imported"][t.transfer_id] = @ + 1]
       ]_vars
    /\ [][ \A j \in DOMAIN watchers :
              /\ ( watchers[j].kind = "import" /\ watchers'[j].pc = "poll"
                      /\ watchers'[j] # watchers[j] )
                    => local' = local /\ queue' = queue /\ sent' = sent
              /\ ( watchers[j].kind = "import" /\ watchers[j].pc # "poll" )
                    => watchers'[j] = watchers[j]
       ]_vars

\* C14's case: the oracle has answered false, then true; the watcher has
\* removed the top-level directory and sent the one Imported of its transfer
C14_Witness ==
    \E k \in DOMAIN watchers :
        /\ HasTopLevel(k)
        /\ watchers[k].pc = "done"
        /\ watchers[k].calls = <<"is_imported", "is_imported">>
        /\ Unwrap(get_top_level(watchers[k].transfer)).target_type = "Directory"
        /\ local[Unwrap(get_top_level(watchers[k].transfer)).to] = "missing"
        /\ sent["Imported"][watchers[k].transfer.transfer_id] = 1

\* the calls of a log from its n-th on
From(calls, n) == SubSeq(calls, n, Len(calls))

\* the number of status checks a log starts with
RECURSIVE StatusChecks(_)
StatusChecks(calls) ==
    IF calls # <<>> /\ Head(calls) \in {"get_transfer", "get_transfer: Err"}
    THEN 1 + StatusChecks(Tail(calls))
    ELSE 0

\* the calls a seeding watcher has made after its status checks
AfterChecks(k) == From(watchers[k].calls, StatusChecks(watchers[k].calls) + 1)

\* C15: a seeding watcher that is still polling has made status checks only;
\* after the check that did not answer Seeding it makes no further check, and
\* its calls from there on are the removal, then the file deletion, each once.
C15_RemovalAfterSeedingOnly ==
    \A k \in DOMAIN watchers :
        watchers[k].kind = "seeding" =>
            /\ watchers[k].pc = "poll" => AfterChecks(k) = <<>>
            /\ watchers[k].pc = "remove" =>
                  AfterChecks(k) = <<>> /\ StatusChecks(watchers[k].calls) >= 1
            /\ watchers[k].pc = "delete" => AfterChecks(k) = <<"remove_transfer">>
            /\ watchers[k].pc = "done" =>
                  AfterChecks(k) \in { <<"remove_transfer", "delete_file">>,
                                       <<"remove_transfer", "delete_file: Err">> }
            /\ watchers[k].pc = "err" => AfterChecks(k) \in { <<>>, <<"remove_transfer: Err">> }

\* C15's case: the status was Seeding, Seeding, then something else: three
\* status checks, the removal, the file deletion
C15_Witness ==
    \E k \in DOMAIN watchers :
        /\ watchers[k].kind = "seeding"
        /\ watchers[k].pc = "done"
        /\ watchers[k].calls = <<"get_transfer", "get_transfer", "get_transfer",
                                 "remove_transfer", "delete_file">>

\* C16: a seeding watcher whose removal call failed has ended with an
\* error, the failed removal is its last call, and it stays as it is: it
\* never calls delete_file.
C16_RemovalFailureEndsWatcher ==
    /\ [](\A k \in DOMAIN watchers :
            Contains(watchers[k].calls, "remove_transfer: Err") =>
                /\ watchers[k].pc = "err"
                /\ watchers[k].calls[Len(watchers[k].calls)] = "remove_transfer: Err"
                /\ ~Contains(watchers[k].calls, "delete_file")
                /\ ~Contains(watchers[k].calls, "delete_file: Err"))
    /\ [][ \A k \in DOMAIN watchers :
              watchers[k].pc = "err" => watchers'[k] = watchers[k] ]_vars

\* C16's case: after two status checks the removal call has failed
C16_Witness ==
    \E k \in DOMAIN watchers :
        /\ watchers[k].kind = "seeding"
        /\ watchers[k].pc = "err"
        /\ watchers[k].calls = <<"get_transfer", "get_transfer", "remove_transfer: Err">>

\* C17: a seeding watcher whose file deletion failed after a successful
\* removal has ended as one whose deletion succeeded: it returned Ok, the
\* failed deletion is its last call and its only deletion, and it stays as it
\* is.
C17_DeletionFailureStillEnds ==
    /\ [](\A k \in DOMAIN watchers :
            Contains(watchers[k].calls, "delete_file: Err") =>
                /\ watchers[k].pc = "done"
                /\ AfterChecks(k) = <<"remove_transfer", "delete_file: Err">>)
    /\ [][ \A k \in DOMAIN watchers :
              ( watchers[k].kind = "seeding" /\ watchers[k].pc = "done" )
                  => watchers'[k] = watchers[k] ]_vars

\* C17's case: the removal succeeded, the deletion failed, the watcher is done
C17_Witness ==
    \E k \in DOMAIN watchers :
        /\ watchers[k].kind = "seeding"
        /\ watchers[k].pc = "done"
        /\ watchers[k].calls = <<"get_transfer", "remove_transfer", "delete_file: Err">>

\* C18: no step of a seeding watcher sends an event or touches the event
\* queue, and per transfer id no more Imported events are sent than Downloaded
\* events and no more Downloaded events than QueuedForDownload events: an
\* enqueue whose Imported event is consumed brings no further event.
C18_SeedingWatcherSendsNothing ==
    /\ [](\A id \in TransferIds :
            /\ sent["Imported"][id] <= sent["Downloaded"][id]
            /\ sent["Downloaded"][id] <= sent["QueuedForDownload"][id])
    /\ [][ \A k \in DOMAIN watchers :
              ( watchers[k].kind = "seeding" /\ watchers'[k] # watchers[k] )
                  => queue' = queue /\ sent' = sent ]_vars

\* C18's case: the one enqueue of a transfer went through every stage, its
\* seeding watcher has ended and the event queue is empty
C18_Witness ==
    \E k \in DOMAIN watchers :
        /\ watchers[k].kind = "seeding"
        /\ watchers[k].pc = "done"
        /\ queue = <<>>
        /\ \A kind \in EventKinds : sent[kind][watchers[k].transfer.transfer_id] = 1

\* C19, in the pipeline: the step in which a worker's planning call fails
\* dispatches nothing.
C19_NothingDispatched ==
    [][ \A w \in OWorkers :
          ( workers[w].pc = "recv" /\ workers'[w].pc = "ended" ) => dqueue' = dqueue ]_vars

\* the dispatches taken from the dispatch queue whose outcome is not sent yet
Executing ==
    { tx \in UNION { {ReplyChannel(w, i) : i \in DOMAIN workers[w].targets} : w \in OWorkers } :
        /\ workers[tx[1]].pc = "wait"
        /\ done[tx[1]][tx[2]] = <<>>
        /\ \A n \in DOMAIN dqueue : dqueue[n].tx # tx }

\* the download workers that are executing a target
Busy == {d \in DWorkers : dworkers[d].pc = "busy"}

\* C21: the dispatches in execution are at most DownloadWorkers, each is in
\* the hands of exactly one busy download worker and every busy download
\* worker holds one of them; a download worker takes a dispatch only when it
\* is idle, that is after it has sent the outcome of the one before.
C21_AtMostMExecuting ==
    /\ [](/\ Cardinality(Executing) <= DownloadWorkers
          /\ \A tx \in Executing : Cardinality({d \in Busy : dworkers[d].tx = tx}) = 1
          /\ \A d \in Busy : dworkers[d].tx \in Executing)
    /\ [][ \A d \in DWorkers :
              ( Len(dqueue') < Len(dqueue) /\ dworkers'[d] # dworkers[d] )
                  => dworkers[d].pc = "recv" /\ dworkers'[d].pc = "busy" ]_vars

\* C21's case: every download worker is busy and a dispatch waits in the queue
C21_Witness ==
    /\ Busy = DWorkers
    /\ Cardinality(Executing) = DownloadWorkers
    /\ dqueue # <<>>

\* the planning of an enqueued transfer id has failed (the worker that took
\* the event ended on it)
PlanningFailed(id) ==
    \E w \in OWorkers : workers[w].pc = "ended" /\ workers[w].transfer.transfer_id = id

\* C22: a poll iteration that fetches a list in which a transfer whose
\* planning has failed is present and downloadable sends QueuedForDownload
\* for it again.
C22_RequeuedAfterPlanningFailure ==
    [][ FetchedList =>
            \A i \in DOMAIN producer'.list :
                LET t == producer'.list[i]
                IN  ( is_downloadable(t) /\ PlanningFailed(t.id) )
                    => sent'["QueuedForDownload"][t.id] = sent["QueuedForDownload"][t.id] + 1
      ]_vars

\* every handling of transfer id so far collected a Failed outcome
OnlyFailed(id) == failed[id] > 0 /\ failed[id] = sent["QueuedForDownload"][id]

\* the local paths of the targets of transfer id
PathsOf(id) ==
    UNION { {tg.to : tg \in {get_download_targets(files, skip_directories, f, {}, {}).targets[i] :
                                i \in DOMAIN get_download_targets(files, skip_directories, f, {}, {}).targets}} :
            f \in FileIdsOf(id) }

\* C23: once the handlings of a transfer have collected a Failed outcome, and
\* while its id stays listed, nothing more is done for it: no poll that lists
\* it sends QueuedForDownload for it again, no Downloaded or Imported event
\* is sent for it, no watcher exists for it (so no remote removal or deletion
\* is issued for it), and no local path of its targets is deleted.
C23_FailedTransferIsDropped ==
    [][ \A id \in TransferIds :
            OnlyFailed(id) =>
                /\ ( FetchedList /\ producer.listed[id] > 0 /\ id \in ActiveIds(producer'.list) )
                      => sent'["QueuedForDownload"][id] = sent["QueuedForDownload"][id]
                /\ sent'["Downloaded"][id] = 0
                /\ sent'["Imported"][id] = 0
                /\ \A k \in DOMAIN watchers' : watchers'[k].transfer.transfer_id # id
                /\ \A p \in PathsOf(id) : local[p] # "missing" => local'[p] # "missing"
      ]_vars

\* a transfer with a Failed target and a downloaded one stays listed through
\* a later poll, while the other transfer has been imported
C23_Witness ==
    /\ \E id \in TransferIds :
          /\ OnlyFailed(id)
          /\ producer.listed[id] > 1
          /\ \E p \in PathsOf(id) : local[p] # "missing"
    /\ \E k \in DOMAIN watchers : watchers[k].pc = "done"

\* the watchers that are still polling
Polling == {k \in DOMAIN watchers : watchers[k].pc = "poll"}

\* C24: a worker that handles Downloaded or Imported starts the watcher and
\* is back at receiving in the same step: no worker's position or locals
\* change when a watcher is started; and a worker is away from receiving only
\* while it waits for the outcomes of a QueuedForDownload it dispatched, or
\* after work() returned, however many watchers are still polling.
C24_WatchersDoNotHoldWorkers ==
    /\ [][ Len(watchers') > Len(watchers)
              => /\ workers' = workers
                 /\ \E w \in OWorkers : workers'[w].pc = "recv" ]_vars
    /\ [](\A w \in OWorkers :
            \/ workers[w].pc \in {"recv", "ended"}
            \/ /\ workers[w].pc = "wait"
               /\ workers[w].transfer.targets = None
               /\ \A k \in Polling : watchers[k].transfer # workers[w].transfer)

\* a seeding watcher is polling, started after the import watcher of the same
\* transfer; one worker waits for the outcomes of another transfer, the other
\* worker is receiving
C24_Witness ==
    /\ \E k \in Polling : watchers[k].kind = "seeding"
    /\ \E w \in OWorkers : workers[w].pc = "wait" /\ workers[w].targets # <<>>
    /\ \E w \in OWorkers : workers[w].pc = "recv"

\* C25: whatever the order in which the download workers take and finish the
\* targets of a handling, the outcome collected at position i is the one sent
\* on the reply channel of target i and carries target i; and Downloaded is
\* sent when the handling ends if and only if the outcome of every target, as
\* its download worker sent it, is Success.
C25_AggregateIgnoresCompletionOrder ==
    /\ [](\A w \in OWorkers :
            workers[w].pc = "wait" =>
                \A i \in DOMAIN workers[w].all_downloaded :
                    /\ done[w][i] = <<workers[w].all_downloaded[i]>>
                    /\ workers[w].all_downloaded[i].target = workers[w].targets[i])
    /\ [][ \A w \in OWorkers :
              EndsHandling(w) =>
                  ( sent'["Downloaded"][workers[w].transfer.transfer_id]
                        = sent["Downloaded"][workers[w].transfer.transfer_id] + 1
                    <=> \A i \in DOMAIN workers[w].targets :
                            \E o \in {Outcome("Success", workers[w].targets[i])} :
                                done[w][i] = <<o>> ) ]_vars

\* the second download worker took the first target of a handling and is
\* still at it, while the second target is finished and its outcome waits in
\* its channel
C25_Witness ==
    \E w \in OWorkers :
        /\ workers[w].pc = "wait"
        /\ DOMAIN done[w] = 1..2
        /\ dworkers[DownloadWorkers].pc = "busy"
        /\ dworkers[DownloadWorkers].tx = ReplyChannel(w, 1)
        /\ done[w][1] = <<>>
        /\ done[w][2] = <<Outcome("Success", workers[w].targets[2])>>

\* C26: when an iteration of the producer's loop whose fetch succeeded reaches
\* its sleep, every id in `seen` is an id of the list fetched in that
\* iteration, `seen` is not longer than that list, and `seen` holds no id twice.
C26_SeenWithinFetchedList ==
    producer.pc = "sleep" =>
        /\ \A i \in DOMAIN producer.seen : producer.seen[i] \in ActiveIds(producer.list)
        /\ Len(producer.seen) <= Len(producer.list)
        /\ \A i, j \in DOMAIN producer.seen : producer.seen[i] = producer.seen[j] => i = j

\* an iteration has pruned an id that an earlier iteration had enqueued, and
\* keeps another: the list holds a transfer that is not in `seen`
C26_Witness ==
    /\ producer.pc = "sleep"
    /\ \E id \in TransferIds :
          /\ sent["QueuedForDownload"][id] > 0
          /\ ~Contains(producer.seen, id)
    /\ producer.seen # <<>>
    /\ Len(producer.seen) < Len(producer.list)

\* C27: in an iteration whose fetch succeeded, QueuedForDownload is sent only
\* for listed transfers with a file_id; a listed transfer without one is not
\* sent and not added to `seen`; and a listed transfer with a file_id whose
\* id is not in `seen` is sent in that very iteration.
C27_EnqueuedIffDownloadable ==
    [][ FetchedList =>
            /\ \A id \in TransferIds :
                  sent'["QueuedForDownload"][id] # sent["QueuedForDownload"][id]
                      => \E i \in DOMAIN producer'.list :
                            producer'.list[i].id = id /\ is_downloadable(producer'.list[i])
            /\ \A i \in DOMAIN producer'.list :
                  LET t == producer'.list[i]
                  IN  /\ ~is_downloadable(t) =>
                            /\ sent'["QueuedForDownload"][t.id] = sent["QueuedForDownload"][t.id]
                            /\ ~Contains(producer.seen, t.id) => ~Contains(producer'.seen, t.id)
                      /\ ( is_downloadable(t) /\ ~Contains(producer.seen, t.id) ) =>
                            sent'["QueuedForDownload"][t.id] = sent["QueuedForDownload"][t.id] + 1
      ]_vars

\* the watchers of one kind of transfer id
WatchersFor(kind, id) ==
    {k \in DOMAIN watchers :
        watchers[k].kind = kind /\ watchers[k].transfer.transfer_id = id}

\* What C28 supposes of transfer id, as far as a state shows it: every
\* fetched list holds it with a file_id, no planning of it has failed, none
\* of its targets has reported Failed, the stat and the removal of its
\* top-level path have not failed, and no remote call of its seeding watcher
\* has failed.
Favourable(id) ==
    /\ producer.pc \in {"sleep", "send_failed"}
          => \E i \in DOMAIN producer.list :
                producer.list[i].id = id /\ is_downloadable(producer.list[i])
    /\ ~PlanningFailed(id)
    /\ failed[id] = 0
    /\ \A k \in WatchersFor("import", id) : HasTopLevel(k) => watchers[k].pc # "panicked"
    /\ \A k \in WatchersFor("seeding", id) :
          /\ watchers[k].pc # "err"
          /\ ~Contains(watchers[k].calls, "delete_file: Err")

\* the terminal stage of transfer id: a seeding watcher of it has issued the
\* remote removal and the remote file deletion, after the import watcher
\* deleted the top-level path
Terminal(id) ==
    \E k \in WatchersFor("seeding", id) :
        /\ watchers[k].pc = "done"
        /\ Contains(watchers[k].calls, "remove_transfer")
        /\ Contains(watchers[k].calls, "delete_file")

\* C28: under fair scheduling, a transfer that was enqueued and for which
\* everything stays favourable from then on eventually reaches the terminal
\* stage.
C28_FavourableTransferTerminates ==
    \A id \in TransferIds :
        []( ( sent["QueuedForDownload"][id] > 0 /\ []Favourable(id) ) => <>Terminal(id) )

\* the plan of the transfer at the head of the event queue, all calls succeeding
HeadPlan ==
    get_download_targets(files, skip_directories, Unwrap(Head(queue).transfer.file_id), {}, {})

\* C29: a worker that takes a QueuedForDownload whose plan is the empty list
\* sends nothing to the dispatch channel and has no reply channel; its next
\* step, with no outcome collected, sends Downloaded for the transfer with
\* the empty target list and brings it back to receiving.
C29_EmptyPlanIsDownloaded ==
    [][ \A w \in OWorkers :
          /\ ( /\ workers[w].pc = "recv" /\ workers'[w].pc = "wait"
                /\ HeadPlan.targets = <<>> )
                => /\ dqueue' = dqueue
                   /\ done'[w] = <<>>
                   /\ workers'[w].targets = <<>>
          /\ ( /\ workers[w].pc = "wait" /\ workers[w].targets = <<>>
                /\ workers'[w] # workers[w] )
                => /\ workers[w].all_downloaded = <<>>
                   /\ workers'[w].pc = "recv"
                   /\ dqueue' = dqueue
                   /\ queue' = Append(queue,
                         Event("Downloaded", [workers[w].transfer EXCEPT !.targets = Some(<<>>)]))
      ]_vars

\* Downloaded with an empty target list is in the event queue while a
\* download of the other transfer is in progress
C29_Witness ==
    /\ \E n \in DOMAIN queue :
          queue[n].kind = "Downloaded" /\ queue[n].transfer.targets = Some(<<>>)
    /\ Busy # {}

\* target i of worker w's handling is on the dispatch channel, or a download
\* worker executes it, or its outcome is in its reply channel
InFlightOrAnswered(w, i) ==
    \/ done[w][i] # <<>>
    \/ \E n \in DOMAIN dqueue : dqueue[n].tx = ReplyChannel(w, i)
    \/ \E d \in Busy : dworkers[d].tx = ReplyChannel(w, i)

\* C31: a worker that waits for replies has put every target of its handling
\* on the dispatch channel (each one is queued, executed or answered); the step
\* in which a download worker reports changes no orchestration worker and
\* needs none; and, with the download workers and the waiting workers
\* scheduled fairly and every download ending, a worker that waits for replies
\* eventually is back at receiving, also when all the workers wait at once.
C31_HandlingTerminates ==
    /\ [](\A w \in OWorkers :
            workers[w].pc = "wait" =>
                \A i \in DOMAIN workers[w].targets :
                    i \in DOMAIN done[w] /\ InFlightOrAnswered(w, i))
    /\ [][ \A d \in DWorkers :
              ( dworkers[d].pc = "busy" /\ dworkers'[d].pc = "recv" )
                  => /\ workers' = workers
                     /\ dqueue' = dqueue ]_vars
    /\ \A w \in OWorkers :
          ( workers[w].pc = "wait" ) ~> ( workers[w].pc = "recv" )

\* every orchestration worker waits for replies, every download worker is
\* busy, and a target is still on the dispatch channel
C31_Witness ==
    /\ \A w \in OWorkers : workers[w].pc = "wait" /\ workers[w].targets # <<>>
    /\ Busy = DWorkers
    /\ dqueue # <<>>

\* the status query of seeding watcher k has failed
StatusFailed(k) ==
    /\ watchers[k].kind = "seeding"
    /\ Contains(watchers[k].calls, "get_transfer: Err")

\* C32: a seeding watcher whose status query failed has ended with an error;
\* the failed query is its last call, every call before it is a status query
\* that succeeded, so it has issued neither the removal nor the file deletion;
\* and it stays as it is: it never polls or calls again.
C32_StatusFailureEndsWatcher ==
    /\ [](\A k \in DOMAIN watchers :
            StatusFailed(k) =>
                /\ watchers[k].pc = "err"
                /\ \A n \in DOMAIN watchers[k].calls :
                      watchers[k].calls[n] =
                          IF n = Len(watchers[k].calls) THEN "get_transfer: Err"
                          ELSE "get_transfer")
    /\ [][ \A k \in DOMAIN watchers :
              StatusFailed(k) => watchers'[k] = watchers[k] ]_vars

\* C32's case: the status was Seeding twice, then the query failed
C32_Witness ==
    \E k \in DOMAIN watchers :
        /\ watchers[k].pc = "err"
        /\ watchers[k].calls = <<"get_transfer", "get_transfer", "get_transfer: Err">>

\* C11: the producer is never about to fetch the list again right after a
\* failed fetch: a sleep lies between any two consecutive fetch attempts.
C11_SleepsBetweenFetches ==
    producer.pc = "poll" => ~producer.retrying

(***************************************************************************)
(* PlannerSpec: the planner as a function of the remote tree, the skip      *)
(* list and the failing remote calls.                                       *)
(***************************************************************************)
PlannerInit ==
    /\ \E k \in 1..MaxNodes : files \in Trees(k)
    /\ skip_directories \in SkipLists
    /\ plan = NotPlanned
    /\ PipelineStart

Plan ==
    /\ ~plan.called
    /\ \E f \in Failures(files) :
          plan' = [called |-> TRUE, listFail |-> f[1], urlFail |-> f[2],
                   result |-> get_download_targets(files, skip_directories, RootId,
                                                   f[1], f[2])]
    /\ UNCHANGED <<files, skip_directories>>
    /\ UNCHANGED pipelineVars

PlannerNext == Plan

PlannerSpec == PlannerInit /\ [][PlannerNext]_vars

(***************************************************************************)
(* The planner's claims.                                                    *)
(***************************************************************************)
\* a folder the planner skips: its lower-cased name is an entry of the skip list
SkippedFolder(fs, skip, n) ==
    fs[n].file_type = "FOLDER" /\ Contains(skip, to_lowercase(fs[n].name))

\* n is a skipped folder or lies under one
RECURSIVE InSkippedSubtree(_, _, _)
InSkippedSubtree(fs, skip, n) ==
    \/ SkippedFolder(fs, skip, n)
    \/ fs[n].parent # 0 /\ InSkippedSubtree(fs, skip, fs[n].parent)

PlannedFolders(fs, skip) ==
    {n \in DOMAIN fs : fs[n].file_type = "FOLDER" /\ ~InSkippedSubtree(fs, skip, n)}

PlannedVideos(fs, skip) ==
    {n \in DOMAIN fs : fs[n].file_type = "VIDEO" /\ ~InSkippedSubtree(fs, skip, n)}

\* the targets of a list that have a given type and destination
TargetsAt(targets, type, to) ==
    {i \in DOMAIN targets : targets[i].target_type = type /\ targets[i].to = to}

\* C7: a successful plan holds exactly one Directory target per folder outside
\* every skipped subtree (counted per destination path, which is all a
\* Directory target carries), exactly one File target per VIDEO node outside
\* every skipped subtree (its `from` names the node), and nothing else.
C7_OneTargetPerPlannedNode ==
    (plan.called /\ plan.result.ok) =>
        LET ts == plan.result.targets
            dirs == PlannedFolders(files, skip_directories)
            vids == PlannedVideos(files, skip_directories)
        IN  /\ Len(ts) = Cardinality(dirs) + Cardinality(vids)
            /\ \A nk \in NodeKinds :
                  Cardinality(TargetsAt(ts, "Directory", PathJoin(".", nk.name)))
                    = Cardinality({n \in dirs : files[n].name = nk.name})
            /\ \A n \in vids :
                  Cardinality({i \in DOMAIN ts :
                                 /\ ts[i].target_type = "File"
                                 /\ ts[i].from = Some(n)
                                 /\ ts[i].to = PathJoin(".", files[n].name)}) = 1
            /\ \A i \in DOMAIN ts :
                  /\ ts[i].target_type = "File" => ts[i].from \in {Some(n) : n \in vids}
                  /\ ts[i].target_type = "Directory" => ts[i].from = None

\* C7's case: a planned tree with a skipped folder that has a VIDEO inside, a
\* node of another type and a planned VIDEO
C7_Witness ==
    /\ plan.called /\ plan.result.ok
    /\ \E n \in DOMAIN files :
          /\ files[n].file_type = "VIDEO"
          /\ files[n].parent # 0
          /\ SkippedFolder(files, skip_directories, files[n].parent)
          /\ files[files[n].parent].parent = RootId
    /\ PlannedVideos(files, skip_directories) # {}
    /\ Len(plan.result.targets) = 2

\* the nodes the planner visits when no call fails: the root and every node
\* whose ancestors are all folders it descends into
Visited(fs, skip) ==
    {n \in DOMAIN fs : fs[n].parent = 0 \/ ~InSkippedSubtree(fs, skip, fs[n].parent)}

\* the planning call meets a failing remote call: list_files is called for
\* every visited node, url for every visited VIDEO node
MeetsFailure(fs, skip, listFail, urlFail) ==
    \/ listFail \cap Visited(fs, skip) # {}
    \/ \E n \in urlFail \cap Visited(fs, skip) : fs[n].file_type = "VIDEO"

\* C19: a planning call that meets a failing list_files or url call returns
\* an error and no target at all, whatever it had gathered before; a call that
\* meets none returns Ok.
C19_FailureFailsWholePlan ==
    plan.called =>
        IF MeetsFailure(files, skip_directories, plan.listFail, plan.urlFail)
        THEN ~plan.result.ok /\ plan.result.targets = <<>>
        ELSE plan.result.ok

\* C19's case: under the root folder the first VIDEO is resolved, the URL of
\* the second one fails, and the plan is an error without targets
C19_Witness ==
    /\ plan.called
    /\ Len(files) >= 3
    /\ files[1].file_type = "FOLDER" /\ ~SkippedFolder(files, skip_directories, 1)
    /\ files[2].file_type = "VIDEO" /\ files[2].parent = 1
    /\ files[3].file_type = "VIDEO" /\ files[3].parent = 1
    /\ plan.urlFail = {3}
    /\ ~plan.result.ok
    /\ plan.result.targets = <<>>

\* a name equals an entry of the skip list when case is ignored on both sides
MatchesIgnoringCase(skip, name) ==
    \E i \in DOMAIN skip : to_lowercase(skip[i]) = to_lowercase(name)

\* n is a folder whose name matches the skip list ignoring case, or lies
\* under one
RECURSIVE UnderMatchingFolder(_, _, _)
UnderMatchingFolder(fs, skip, n) ==
    \/ fs[n].file_type = "FOLDER" /\ MatchesIgnoringCase(skip, fs[n].name)
    \/ fs[n].parent # 0 /\ UnderMatchingFolder(fs, skip, fs[n].parent)

\* C20: the planner skips a folder exactly when its name matches an entry of
\* the skip list with case ignored on both sides: a root folder yields no
\* target exactly when it matches, and a successful plan holds as many
\* Directory targets as there are folders outside every matching subtree.
C20_SkipIgnoresCase ==
    (plan.called /\ plan.result.ok) =>
        LET ts == plan.result.targets
        IN  /\ files[RootId].file_type = "FOLDER" =>
                  ( ts = <<>> <=> MatchesIgnoringCase(skip_directories, files[RootId].name) )
            /\ Cardinality({i \in DOMAIN ts : ts[i].target_type = "Directory"})
                  = Cardinality({n \in DOMAIN files :
                                   /\ files[n].file_type = "FOLDER"
                                   /\ ~UnderMatchingFolder(files, skip_directories, n)})

\* a is a proper ancestor of d
RECURSIVE Ancestor(_, _, _)
Ancestor(fs, a, d) ==
    fs[d].parent # 0 /\ (fs[d].parent = a \/ Ancestor(fs, a, fs[d].parent))

\* the child of c on the way down to its descendant x
RECURSIVE Toward(_, _, _)
Toward(fs, c, x) == IF fs[x].parent = c THEN x ELSE Toward(fs, c, fs[x].parent)

\* x comes before y in the pre-order walk that takes the children in the
\* listing's order
PreOrderBefore(fs, x, y) ==
    \/ Ancestor(fs, x, y)
    \/ /\ x # y /\ ~Ancestor(fs, y, x)
       /\ \E c \in DOMAIN fs :
             /\ Ancestor(fs, c, x) /\ Ancestor(fs, c, y)
             /\ Toward(fs, c, x) < Toward(fs, c, y)

\* target tg is the one produced for node n
TargetOf(fs, tg, n) ==
    IF fs[n].file_type = "FOLDER"
    THEN tg.target_type = "Directory" /\ tg.to = PathJoin(".", fs[n].name)
    ELSE tg.target_type = "File" /\ tg.from = Some(n)

\* the ways to tell which target of ts was produced for which planned node
Placements(fs, skip, ts) ==
    LET nodes == PlannedFolders(fs, skip) \cup PlannedVideos(fs, skip)
    IN  { g \in [nodes -> DOMAIN ts] :
            /\ \A x, y \in nodes : g[x] = g[y] => x = y
            /\ \A x \in nodes : TargetOf(fs, ts[g[x]], x) }

\* C30: the targets of a handling are the planned nodes' targets in pre-order,
\* so the Directory target of a folder is in front of every target of the
\* folder's descendants; a worker that dispatches appends them to the dispatch
\* channel in the order of the list.  (That a File target can be executed
\* before its parent's Directory target is the reachable state C30_Witness.)
C30_PreOrderPlanDispatchedInOrder ==
    /\ [](\A w \in OWorkers :
            workers[w].pc = "wait" =>
                \E g \in Placements(files, skip_directories, workers[w].targets) :
                    \A x, y \in DOMAIN g :
                        /\ PreOrderBefore(files, x, y) => g[x] < g[y]
                        /\ ( files[x].file_type = "FOLDER" /\ Ancestor(files, x, y) )
                              => g[x] < g[y])
    /\ [][ \A w \in OWorkers :
              ( workers[w].pc = "recv" /\ workers'[w].pc = "wait" )
                  => /\ Len(dqueue') = Len(dqueue) + Len(workers'[w].targets)
                     /\ \A i \in DOMAIN workers'[w].targets :
                           dqueue'[Len(dqueue) + i].download_target = workers'[w].targets[i]
                     /\ \A n \in DOMAIN dqueue : dqueue'[n] = dqueue[n] ]_vars

\* the File target of a VIDEO is downloaded and has reported Success while
\* the Directory target of its parent folder, dispatched in front of it, is
\* still being executed and its path does not exist yet
C30_Witness ==
    \E w \in OWorkers : \E n \in DOMAIN files :
        /\ workers[w].pc = "wait"
        /\ files[n].parent # 0
        /\ files[files[n].parent].name # files[n].name
        /\ \E i, j \in DOMAIN workers[w].targets :
              /\ i < j
              /\ TargetOf(files, workers[w].targets[i], files[n].parent)
              /\ TargetOf(files, workers[w].targets[j], n)
              /\ workers[w].targets[j].target_type = "File"
              /\ done[w][i] = <<>>
              /\ done[w][j] = <<Outcome("Success", workers[w].targets[j])>>
              /\ \E d \in Busy : dworkers[d].tx = ReplyChannel(w, i)
              /\ local[workers[w].targets[i].to] = "missing"
              /\ local[workers[w].targets[j].to] = "file"

\* C8: a non-empty plan has exactly one top-level target, the first one, which
\* is the root node's; every other target (all come from recursive calls) has
\* top_level = FALSE.
C8_ExactlyOneTopLevel ==
    (plan.called /\ plan.result.ok /\ plan.result.targets # <<>>) =>
        LET ts == plan.result.targets
        IN  /\ Cardinality({i \in DOMAIN ts : ts[i].top_level}) = 1
            /\ ts[1].top_level
            /\ ts[1].to = PathJoin(".", files[RootId].name)
            /\ ts[1].target_type =
                  (IF files[RootId].file_type = "FOLDER" THEN "Directory" ELSE "File")
            /\ \A i \in DOMAIN ts : i > 1 => ~ts[i].top_level

\* C8's case: a plan of a folder with targets from nested recursive calls
C8_Witness ==
    /\ plan.called /\ plan.result.ok
    /\ Len(plan.result.targets) >= 3
    /\ \E n \in PlannedVideos(files, skip_directories) : files[n].parent # RootId

====
